---- MODULE Spec2Model ----
(***************************************************************************)
(* Model of the fixed-height incremental Merkle tree of                    *)
(* core/src/merkle.rs (MerkleTree, MerkleProof, ZEROS, hash_pair).         *)
(*                                                                         *)
(* 32-byte values are terms: a leaf value is a one-element tuple <<n>>     *)
(* (<<0>> is the all-zero value [0u8; 32]) and a Keccak256 pair hash is    *)
(* the two-element tuple of its operands, so hash_pair is deterministic,   *)
(* order-sensitive and collision-free, and no hash output equals a leaf    *)
(* atom.  Code indices are 0-based; sequences here are 1-based, so the     *)
(* code's v[i] is v[i + 1] for the Vec fields, while ZEROS and             *)
(* filled_subtrees are functions over 0 .. TREE_HEIGHT - 1.                *)
(***************************************************************************)
EXTENDS Integers, Sequences, FiniteSets, TLC

\* merkle.rs:7 sets 32; the model runs the same loops over a shorter tree.
TREE_HEIGHT == 2

\* Largest number of leaves pushed in a run (one more than the tree holds).
MaxLeaves == 5

VARIABLES leaves, filled_subtrees, next_index, pushes, result,
          run, committed, recorded, call

vars == <<leaves, filled_subtrees, next_index, pushes, result,
         run, committed, recorded, call>>

RECURSIVE Pow2(_)
Pow2(n) == IF n = 0 THEN 1 ELSE 2 * Pow2(n - 1)

\* The leaf values a caller pushes: [0u8; 32] and [1u8; 32].
LeafVals == { <<0>>, <<1>> }

\* Option<T>: None is the empty sequence, Some(x) is <<x>>.
None == <<>>

Some(x) == <<x>>

----------------------------------------------------------------------------
\* hash_pair: Keccak256(left || right)
hash_pair(left, right) == <<left, right>>

RECURSIVE ZeroAt(_)
ZeroAt(i) == IF i = 0 THEN <<0>> ELSE hash_pair(ZeroAt(i - 1), ZeroAt(i - 1))

\* The lazy_static ZEROS table, TREE_HEIGHT entries.
ZEROS == [i \in 0..(TREE_HEIGHT - 1) |-> ZeroAt(i)]

\* MerkleTree::new
new == [leaves |-> <<>>, filled_subtrees |-> ZEROS, next_index |-> 0]

\* The tree object the methods take as self.
self == [leaves |-> leaves, filled_subtrees |-> filled_subtrees,
         next_index |-> next_index]

\* The walk of push_leaf without the recording of the left nodes.
push_loop_no_record(level, current_hash, current_index, fs) == fs

\* The for loop of push_leaf: the filled_subtrees after the walk.
RECURSIVE push_loop(_, _, _, _)
push_loop(level, current_hash, current_index, fs) ==
    IF level >= TREE_HEIGHT THEN fs
    ELSE IF current_index % 2 = 0
         THEN push_loop(level + 1, hash_pair(current_hash, ZEROS[level]),
                        current_index \div 2,
                        [fs EXCEPT ![level] = current_hash])
         ELSE push_loop(level + 1, hash_pair(fs[level], current_hash),
                        current_index \div 2, fs)

\* The value push_leaf returns.
push_leaf_post_index(t) == t.next_index + 1

push_leaf_index(t) == t.next_index

\* A push that puts the leaf in front of the stored ones.
push_leaf_prepend(t, leaf) ==
    [leaves |-> <<leaf>> \o t.leaves,
     filled_subtrees |-> push_loop(0, leaf, t.next_index, t.filled_subtrees),
     next_index |-> t.next_index + 1]

\* The tree after push_leaf(leaf).
push_leaf(t, leaf) ==
    [leaves |-> Append(t.leaves, leaf),
     filled_subtrees |-> push_loop(0, leaf, t.next_index, t.filled_subtrees),
     next_index |-> t.next_index + 1]

\* The for loop of root().
RECURSIVE root_loop_zeros(_, _, _, _)
root_loop_zeros(level, current_hash, current_index, fs) ==
    IF level >= TREE_HEIGHT THEN current_hash
    ELSE root_loop_zeros(level + 1, hash_pair(current_hash, ZEROS[level]),
                         current_index \div 2, fs)

RECURSIVE root_loop(_, _, _, _)
root_loop(level, current_hash, current_index, fs) ==
    IF level >= TREE_HEIGHT THEN current_hash
    ELSE IF current_index % 2 = 0
         THEN root_loop(level + 1, hash_pair(current_hash, ZEROS[level]),
                        current_index \div 2, fs)
         ELSE root_loop(level + 1, hash_pair(fs[level], current_hash),
                        current_index \div 2, fs)

\* root with the empty tree answered by the first entry of the table.
root_empty_zero(t) ==
    IF t.leaves = <<>> THEN ZEROS[0]
    ELSE root_loop(0, t.leaves[Len(t.leaves)], t.next_index - 1,
                   t.filled_subtrees)

\* root walking from the first leaf instead of the last one.
root_first_leaf(t) ==
    IF t.leaves = <<>> THEN ZEROS[TREE_HEIGHT - 1]
    ELSE root_loop(0, t.leaves[1], 0, t.filled_subtrees)

\* MerkleTree::root
root(t) ==
    IF t.leaves = <<>> THEN ZEROS[TREE_HEIGHT - 1]
    ELSE root_loop(0, t.leaves[Len(t.leaves)], t.next_index - 1,
                   t.filled_subtrees)

\* MerkleTree::leaf_count
leaf_count(t) == Len(t.leaves)

\* MerkleTree::get_leaf
get_leaf(t, index) ==
    IF index < Len(t.leaves) THEN Some(t.leaves[index + 1]) ELSE None

----------------------------------------------------------------------------
\* The while loop of prove that hashes level_nodes pairwise into next_level.
next_level(level_nodes, level) ==
    [k \in 1..((Len(level_nodes) + 1) \div 2) |->
        hash_pair(level_nodes[2 * k - 1],
                  IF 2 * k <= Len(level_nodes) THEN level_nodes[2 * k]
                  ELSE ZEROS[level])]

\* The for loop of prove: the siblings collected when it ends or breaks.
RECURSIVE prove_loop(_, _, _, _)
prove_loop(level, level_nodes, index, siblings) ==
    IF level >= TREE_HEIGHT THEN siblings
    ELSE LET sibling_index == IF index % 2 = 0 THEN index + 1 ELSE index - 1
             sibling == IF sibling_index < Len(level_nodes)
                        THEN level_nodes[sibling_index + 1]
                        ELSE ZEROS[level]
             sibs == Append(siblings, sibling)
             nxt == next_level(level_nodes, level)
         IN  IF Len(nxt) <= 1 /\ level + 1 >= Len(sibs)
             THEN sibs
             ELSE prove_loop(level + 1, nxt, index \div 2, sibs)

\* The padding loop of prove: ZEROS beyond the materialized levels.
pad_siblings_none(siblings) == siblings

RECURSIVE pad_siblings(_)
pad_siblings(siblings) ==
    IF Len(siblings) < TREE_HEIGHT
    THEN pad_siblings(Append(siblings, ZEROS[Len(siblings)]))
    ELSE siblings

\* The bounds check of prove.
prove_out_of_bounds_gt(t, leaf_index) == leaf_index > Len(t.leaves)

prove_out_of_bounds(t, leaf_index) == leaf_index >= Len(t.leaves)

\* MerkleProof::new
MerkleProof(leaf_index, siblings) ==
    [leaf_index |-> leaf_index, siblings |-> siblings]

\* MerkleTree::prove
prove(t, leaf_index) ==
    IF prove_out_of_bounds(t, leaf_index) THEN None
    ELSE Some(MerkleProof(leaf_index,
                          pad_siblings(prove_loop(0, t.leaves, leaf_index, <<>>))))

----------------------------------------------------------------------------
\* One iteration of verify_proof: the running hash after this level.
verify_step_drop_current(current, sibling, index) ==
    IF index % 2 = 0 THEN hash_pair(current, sibling)
    ELSE hash_pair(sibling, sibling)

verify_step_drop_sibling(current, sibling, index) ==
    IF index % 2 = 0 THEN hash_pair(current, current)
    ELSE hash_pair(sibling, current)

verify_step_always_left(current, sibling, index) ==
    hash_pair(current, sibling)

verify_step(current, sibling, index) ==
    IF index % 2 = 0 THEN hash_pair(current, sibling)
    ELSE hash_pair(sibling, current)

\* The for loop of verify_proof over proof.siblings, with its break.
RECURSIVE verify_loop(_, _, _, _)
verify_loop(level, current, index, siblings) ==
    IF level >= Len(siblings) THEN current
    ELSE LET cur == verify_step(current, siblings[level + 1], index)
         IN  IF level >= TREE_HEIGHT - 1 THEN cur
             ELSE verify_loop(level + 1, cur, index \div 2, siblings)

\* MerkleTree::verify_proof
verify_proof(leaf, proof, expected_root) ==
    verify_loop(0, leaf, proof.leaf_index, proof.siblings) = expected_root

----------------------------------------------------------------------------
\* Notes, commitments and nullifiers (note.rs).

\* u64::MAX, scaled: amounts are 0..AmountMax and a sum above it overflows.
AmountMax == 255

\* b"NOTE_COMMITMENT_v1"
NOTE_COMMITMENT_DOMAIN ==
    <<78, 79, 84, 69, 95, 67, 79, 77, 77, 73, 84, 77, 69, 78, 84, 95, 118, 49>>

\* b"NULLIFIER_v1"
NULLIFIER_DOMAIN == <<78, 85, 76, 76, 73, 70, 73, 69, 82, 95, 118, 49>>

\* blake3 over a byte string, collision-free: the digest is a term over the
\* bytes hashed, of another shape than a leaf value or a hash_pair, so that a
\* blake3 digest never equals a Keccak one.
blake3(bytes) == <<bytes, <<>>, <<>>>>

\* The k-th of the 8 bytes of u64::to_le_bytes, k from 1.
RECURSIVE le_byte(_, _)
le_byte(amount, k) ==
    IF k = 1 THEN amount % 256 ELSE le_byte(amount \div 256, k - 1)

\* The 8 bytes of the amount with the most significant byte first.
to_be_bytes(amount) == [k \in 1..8 |-> le_byte(amount, 9 - k)]

\* u64::to_le_bytes
to_le_bytes(amount) == [k \in 1..8 |-> le_byte(amount, k)]

\* [b; 32]
bytes32(b) == [k \in 1..32 |-> b]

\* struct Note
Note(amount, owner_pubkey, blinding) ==
    [amount |-> amount, owner_pubkey |-> owner_pubkey, blinding |-> blinding]

\* A commitment that leaves the blinding out.
commit_unblinded(note) ==
    blake3(NOTE_COMMITMENT_DOMAIN \o to_le_bytes(note.amount)
           \o note.owner_pubkey)

\* note::commit
commit(note) ==
    blake3(NOTE_COMMITMENT_DOMAIN \o to_le_bytes(note.amount)
           \o note.owner_pubkey \o note.blinding)

\* A nullifier without the domain prefix.
compute_nullifier_no_domain(signature) == blake3(signature)

\* A nullifier over r and s only, without the recovery byte.
compute_nullifier_rs_only(signature) ==
    blake3(NULLIFIER_DOMAIN
           \o SubSeq(signature, 1, IF Len(signature) < 64 THEN Len(signature)
                                   ELSE 64))

\* note::compute_nullifier
compute_nullifier(signature) == blake3(NULLIFIER_DOMAIN \o signature)

----------------------------------------------------------------------------
\* Witness, its validation, the Ledger and the transaction simulator: the
\* library crate the proving program imports them from.

\* Witness::new: no precomputed values yet.
Witness_new(input_notes, input_indices, input_proofs, nullifier_signatures, tx_signatures, output_notes) ==
    [input_notes |-> input_notes,
     input_indices |-> input_indices,
     input_proofs |-> input_proofs,
     nullifier_signatures |-> nullifier_signatures,
     tx_signatures |-> tx_signatures,
     output_notes |-> output_notes,
     precomputed_nullifiers |-> <<>>,
     precomputed_input_commitments |-> <<>>,
     precomputed_output_commitments |-> <<>>]

\* Witness::with_precomputed_values: the host hashes once, outside the proof.
with_precomputed_values(w) ==
    [w EXCEPT
       !.precomputed_nullifiers =
           [i \in 1..Len(w.nullifier_signatures) |->
               compute_nullifier(w.nullifier_signatures[i])],
       !.precomputed_input_commitments =
           [i \in 1..Len(w.input_notes) |-> commit(w.input_notes[i])],
       !.precomputed_output_commitments =
           [j \in 1..Len(w.output_notes) |-> commit(w.output_notes[j])]]

\* Witness::has_precomputed_values
has_precomputed_values(w) ==
    \/ w.precomputed_nullifiers # <<>>
    \/ w.precomputed_input_commitments # <<>>
    \/ w.precomputed_output_commitments # <<>>

\* The outcome of a check: "Ok" or the class of the failure.
Ok == "Ok"

\* Witness::validate_structure
validate_structure(w) ==
    IF \/ Len(w.input_indices) # Len(w.input_notes)
       \/ Len(w.input_proofs) # Len(w.input_notes)
       \/ Len(w.nullifier_signatures) # Len(w.input_notes)
       \/ Len(w.tx_signatures) # Len(w.input_notes)
       \/ (w.input_notes = <<>> /\ w.output_notes = <<>>)
    THEN "StructuralError" ELSE Ok

\* The sum of the amounts with every addition wrapping at the integer width.
RECURSIVE wrapping_sum(_, _, _)
wrapping_sum(notes, k, acc) ==
    IF k > Len(notes) THEN Some(acc)
    ELSE wrapping_sum(notes, k + 1, (acc + notes[k].amount) % (AmountMax + 1))

\* The sum of the amounts with every addition checked: absent on overflow.
RECURSIVE checked_sum(_, _, _)
checked_sum(notes, k, acc) ==
    IF k > Len(notes) THEN Some(acc)
    ELSE IF acc + notes[k].amount > AmountMax THEN None
         ELSE checked_sum(notes, k + 1, acc + notes[k].amount)

\* The conservation check over two lists of notes.
value_conservation(input_notes, output_notes) ==
    LET ins == checked_sum(input_notes, 1, 0)
        outs == checked_sum(output_notes, 1, 0)
    IN  IF ins = None \/ outs = None THEN "ConservationError"
        ELSE IF ins[1] >= outs[1] THEN Ok ELSE "ConservationError"

\* Witness::validate_value_conservation
validate_value_conservation(w) ==
    value_conservation(w.input_notes, w.output_notes)

\* Ledger::new: an empty tree and an empty nullifier registry.
Ledger_new == [tree |-> new, nullifiers |-> {}]

\* Ledger::add_note: the ledger after pushing the note's commitment.
add_note(ledger, note) ==
    [ledger EXCEPT !.tree = push_leaf(ledger.tree, commit(note))]

\* Ledger::current_root
current_root(ledger) == root(ledger.tree)

\* struct PublicOutputs
PublicOutputs(old_root, nullifiers, output_commitments) ==
    [old_root |-> old_root, nullifiers |-> nullifiers,
     output_commitments |-> output_commitments]

\* Precomputed commitments checked by their number only.
commitment_consistency_count(notes, commitments) ==
    Len(commitments) = Len(notes)

\* Step 3 of the simulator: each precomputed commitment is the commitment
\* recomputed from the corresponding note.
commitment_consistency(notes, commitments) ==
    /\ Len(commitments) = Len(notes)
    /\ \A i \in 1..Len(notes) : commitments[i] = commit(notes[i])

\* The hash comparison that stands for signature verification: each
\* precomputed nullifier is the hash of the corresponding signature.
nullifier_consistency(signatures, nullifiers) ==
    /\ Len(nullifiers) = Len(signatures)
    /\ \A i \in 1..Len(signatures) :
          nullifiers[i] = compute_nullifier(signatures[i])

\* The double-spend check against the registry only.
double_spend_registry_only(ledger, nullifiers) ==
    \E i \in 1..Len(nullifiers) : nullifiers[i] \in ledger.nullifiers

\* Step 5 of the simulator: a nullifier already used in the registry, or two
\* inputs of the transaction with the same nullifier.
double_spend(ledger, nullifiers) ==
    \/ \E i \in 1..Len(nullifiers) : nullifiers[i] \in ledger.nullifiers
    \/ \E i, j \in 1..Len(nullifiers) : i < j /\ nullifiers[i] = nullifiers[j]

\* The tree after pushing the commitments from the k-th on, in order.
RECURSIVE add_commitments(_, _, _)
add_commitments(tree, commitments, k) ==
    IF k > Len(commitments) THEN tree
    ELSE add_commitments(push_leaf(tree, commitments[k]), commitments, k + 1)

\* Step 6 of the simulator: append the output commitments, record the
\* nullifiers as used.
execute(ledger, nullifiers, commitments) ==
    [tree |-> add_commitments(ledger.tree, commitments, 1),
     nullifiers |-> ledger.nullifiers
                    \cup { nullifiers[i] : i \in 1..Len(nullifiers) }]

\* The ledger executed whatever the checks said.
ledger_after_unchecked(ledger, error, nullifiers, commitments) ==
    execute(ledger, nullifiers, commitments)

\* The ledger a simulation leaves: executed when every check passed,
\* untouched otherwise.
ledger_after(ledger, error, nullifiers, commitments) ==
    IF error = Ok THEN execute(ledger, nullifiers, commitments) ELSE ledger

\* simulate_tx_with_precomputed: steps 3, 5, 6 and 7 of the simulator, the ones
\* its arguments allow and its caller has not done: the precomputed values
\* against the notes and signatures, the double-spend check, the ledger it
\* leaves and the public outputs on success.
simulate_tx_with_precomputed(ledger, nullifier_signatures, tx_signatures, input_notes, output_notes, precomputed_nullifiers, precomputed_input_commitments, precomputed_output_commitments) ==
    LET error ==
            IF \/ ~commitment_consistency(input_notes,
                                          precomputed_input_commitments)
               \/ ~commitment_consistency(output_notes,
                                          precomputed_output_commitments)
               \/ ~nullifier_consistency(nullifier_signatures,
                                         precomputed_nullifiers)
            THEN "CommitmentMismatchError"
            ELSE IF double_spend(ledger, precomputed_nullifiers)
            THEN "DoubleSpendError"
            ELSE Ok
    IN  [error |-> error,
         ledger |-> ledger_after(ledger, error, precomputed_nullifiers,
                                 precomputed_output_commitments),
         outputs |-> IF error = Ok
                     THEN Some(PublicOutputs(current_root(ledger),
                                             precomputed_nullifiers,
                                             precomputed_output_commitments))
                     ELSE None]

----------------------------------------------------------------------------
\* The proving program (prover/program/src/main.rs).

\* struct PublicInputs
PublicInputs(old_root) == [old_root |-> old_root]

\* A run of main: the step it is at, what it read, its local ledger and
\* public outputs once they exist, and for an aborted run the failure and
\* the checks that were run up to it.
Run(pc, public_inputs, witness, ledger, public_outputs, failed, checks) ==
    [pc |-> pc, public_inputs |-> public_inputs, witness |-> witness,
     ledger |-> ledger, public_outputs |-> public_outputs,
     failed |-> failed, checks |-> checks]

\* No run started yet.
NoRun ==
    Run("idle", PublicInputs(ZEROS[0]),
        Witness_new(<<>>, <<>>, <<>>, <<>>, <<>>, <<>>), None, None, "", <<>>)

\* validate_structure's outcome not looked at.
structure_unchecked(w) == TRUE

\* witness.validate_structure().expect(..)
structure_ok(w) == validate_structure(w) = Ok

\* witness.validate_value_conservation().expect(..)
conservation_ok(w) == validate_value_conservation(w) = Ok

\* assert!(!input_notes.is_empty() || !output_notes.is_empty())
nonempty_ok(w) == w.input_notes # <<>> \/ w.output_notes # <<>>

\* The loop of step 3: with precomputed values, each input note's
\* recomputed commitment equals precomputed_input_commitments[i]; indexing
\* past the end of that list panics.
input_commitments_ok(w) ==
    has_precomputed_values(w) =>
        \A i \in 1..Len(w.input_notes) :
            /\ i <= Len(w.precomputed_input_commitments)
            /\ commit(w.input_notes[i]) = w.precomputed_input_commitments[i]

\* assert!(witness.input_proofs.len() == witness.input_notes.len())
proof_count_ok(w) == Len(w.input_proofs) = Len(w.input_notes)

\* Only the first input's proof verified.
merkle_inclusion_first_only(public_inputs, w) ==
    (w.input_notes # <<>> /\ w.input_proofs # <<>>) =>
        verify_proof(commit(w.input_notes[1]), w.input_proofs[1],
                     public_inputs.old_root)

\* The proofs verified against the root of the program's own new ledger.
merkle_inclusion_local_root(public_inputs, w) ==
    \A i \in 1..Len(w.input_notes) :
        i <= Len(w.input_proofs) =>
            verify_proof(commit(w.input_notes[i]), w.input_proofs[i],
                         current_root(Ledger_new))

\* The loop of step 4 over input_notes zipped with input_proofs.
merkle_inclusion_ok(public_inputs, w) ==
    \A i \in 1..Len(w.input_notes) :
        i <= Len(w.input_proofs) =>
            verify_proof(commit(w.input_notes[i]), w.input_proofs[i],
                         public_inputs.old_root)

\* The optimized path: the call of simulate_tx_with_precomputed.
optimized_path(ledger, w) ==
    simulate_tx_with_precomputed(ledger, w.nullifier_signatures,
                                 w.tx_signatures, w.input_notes,
                                 w.output_notes, w.precomputed_nullifiers,
                                 w.precomputed_input_commitments,
                                 w.precomputed_output_commitments)

\* A standard path that hashes in the program and executes.
standard_path_enabled(ledger, w) ==
    optimized_path(ledger, with_precomputed_values(w))

\* The standard path: panic!("Standard path disabled: ..").
standard_path(ledger, w) ==
    [error |-> "StandardPathDisabled", ledger |-> ledger, outputs |-> None]

\* The simulator's old_root left in the outputs.
keep_simulated_root(outputs, public_inputs) == outputs

\* outputs.old_root = public_inputs.old_root
with_old_root(outputs, public_inputs) ==
    [outputs EXCEPT !.old_root = public_inputs.old_root]

\* Step 6 with the commented-out assertion in force for every transaction: a
\* transaction without outputs, which cannot change the root, fails it.
counts_ok_root_changed(public_outputs, w) ==
    /\ Len(public_outputs.nullifiers) = Len(w.input_notes)
    /\ Len(public_outputs.output_commitments) = Len(w.output_notes)
    /\ public_outputs.output_commitments # <<>>

\* The two assert_eq! of step 6 on the numbers of nullifiers and commitments.
counts_ok(public_outputs, w) ==
    /\ Len(public_outputs.nullifiers) = Len(w.input_notes)
    /\ Len(public_outputs.output_commitments) = Len(w.output_notes)

\* A sequence back to front.
reversed(s) == [k \in 1..Len(s) |-> s[Len(s) + 1 - k]]

\* PublicOutputsSol with both lists back to front.
PublicOutputsSol_reversed(public_outputs) ==
    [oldRoot |-> public_outputs.old_root,
     nullifiers |-> reversed(public_outputs.nullifiers),
     outputCommitments |-> reversed(public_outputs.output_commitments)]

\* The PublicOutputsSol built in step 7, the value that is ABI-encoded and
\* committed.
PublicOutputsSol(public_outputs) ==
    [oldRoot |-> public_outputs.old_root,
     nullifiers |-> public_outputs.nullifiers,
     outputCommitments |-> public_outputs.output_commitments]

----------------------------------------------------------------------------
\* A call into the note library: the notes and the signatures at hand, and
\* the commitments and the nullifiers computed from them.
NoteCall(op, notes, signatures, commitments, nullifiers) ==
    [op |-> op, notes |-> notes, signatures |-> signatures,
     commitments |-> commitments, nullifiers |-> nullifiers]

\* No call into the note library or the encryption module yet.
NoCall == NoteCall("none", <<>>, <<>>, <<>>, <<>>)

----------------------------------------------------------------------------
\* What the last call returned: the operation, its arguments and its value.
Result(op, leaf, index, proof, value, ok) ==
    [op |-> op, leaf |-> leaf, index |-> index, proof |-> proof,
     value |-> value, ok |-> ok]

\* let mut tree = MerkleTree::new(); nothing called yet.
Init ==
    /\ leaves = new.leaves
    /\ filled_subtrees = new.filled_subtrees
    /\ next_index = new.next_index
    /\ pushes = <<>>
    /\ result = Result("new", None, 0, None, None, FALSE)
    /\ run = NoRun
    /\ committed = None
    /\ recorded = {}
    /\ call = NoCall

\* tree.push_leaf(leaf)
PushLeaf ==
    \E leaf \in LeafVals :
        /\ Len(leaves) < MaxLeaves
        /\ leaves' = push_leaf(self, leaf).leaves
        /\ filled_subtrees' = push_leaf(self, leaf).filled_subtrees
        /\ next_index' = push_leaf(self, leaf).next_index
        /\ pushes' = Append(pushes, [leaf |-> leaf, index |-> push_leaf_index(self)])
        /\ result' = Result("push_leaf", Some(leaf), push_leaf_index(self),
                            None, None, FALSE)
        /\ UNCHANGED <<run, committed, recorded, call>>

\* tree.root()
Root ==
    /\ result' = Result("root", None, 0, None, Some(root(self)), FALSE)
    /\ UNCHANGED <<leaves, filled_subtrees, next_index, pushes,
                       run, committed, recorded, call>>

\* tree.leaf_count()
LeafCount ==
    /\ result' = Result("leaf_count", None, leaf_count(self), None, None, FALSE)
    /\ UNCHANGED <<leaves, filled_subtrees, next_index, pushes,
                       run, committed, recorded, call>>

\* tree.get_leaf(index)
GetLeaf ==
    \E index \in 0..MaxLeaves :
        /\ result' = Result("get_leaf", None, index, None,
                            get_leaf(self, index), FALSE)
        /\ UNCHANGED <<leaves, filled_subtrees, next_index, pushes,
                       run, committed, recorded, call>>

\* tree.prove(leaf_index)
Prove ==
    \E leaf_index \in 0..MaxLeaves :
        /\ result' = Result("prove", None, leaf_index, prove(self, leaf_index),
                            None, FALSE)
        /\ UNCHANGED <<leaves, filled_subtrees, next_index, pushes,
                       run, committed, recorded, call>>

----------------------------------------------------------------------------
\* Inputs of verify_proof: what a caller holding the tree can hand in.

\* The indices of the stored leaves.
Indices == 0..(Len(leaves) - 1)

\* Number of leaves a tree of TREE_HEIGHT levels holds.
Capacity == Pow2(TREE_HEIGHT)

\* The leaf_index values of a supplied proof (u64 in the code): one bit
\* more than the TREE_HEIGHT bits that select a path.
MaxIndex == 2 * Capacity - 1

\* A leaf value nobody pushes ([99u8; 32] in the tests).
FakeLeaf == <<99>>

\* Level k of the tree as prove rebuilds it.
RECURSIVE level_nodes_at(_)
level_nodes_at(k) ==
    IF k = 0 THEN leaves ELSE next_level(level_nodes_at(k - 1), k - 1)

SeqRange(s) == { s[k] : k \in 1..Len(s) }

\* The 32-byte values in play: leaf values, zero hashes, nodes of the tree.
Values ==
    LeafVals \cup {FakeLeaf} \cup { ZEROS[i] : i \in 0..(TREE_HEIGHT - 1) }
    \cup UNION { SeqRange(level_nodes_at(k)) : k \in 0..TREE_HEIGHT }
    \cup { root(self) }

\* prove(i) of a stored leaf, unwrapped.
ProofOf(i) == prove(self, i)[1]

\* The running hash of verify_proof on entering each level:
\* path[l + 1] is `current` before level l, path[Len + 1] the final value.
RECURSIVE verify_path(_, _, _, _)
verify_path(level, current, index, siblings) ==
    IF level >= Len(siblings) \/ level > TREE_HEIGHT - 1 THEN <<current>>
    ELSE <<current>> \o verify_path(level + 1,
                                    verify_step(current, siblings[level + 1], index),
                                    index \div 2, siblings)

\* Values a caller tries in place of a leaf or a sibling.
Substitutes == LeafVals \cup {FakeLeaf, root(self)}

\* A stored leaf's proof with another value as the leaf.
LeafInputs ==
    { [leaf |-> v, proof |-> ProofOf(i)] :
         v \in LeafVals \cup {FakeLeaf}, i \in Indices }

\* A stored leaf with its proof, one sibling replaced.
SiblingInputs ==
    { [leaf |-> leaves[i + 1],
       proof |-> [ProofOf(i) EXCEPT !.siblings[l] = v]] :
         i \in Indices, l \in 1..TREE_HEIGHT, v \in {FakeLeaf} }

\* A stored leaf with its proof, leaf_index replaced by the next index or
\* by the index 2^H higher.
IndexInputs ==
    UNION { { [leaf |-> leaves[i + 1],
               proof |-> [ProofOf(i) EXCEPT !.leaf_index = j]] :
                 j \in {i + 1, i + Capacity} } : i \in Indices }

\* Forged sibling lists: all-zero bytes, or the zero hashes of each level.
ZeroLists ==
    { [k \in 1..TREE_HEIGHT |-> <<0>>], [k \in 1..TREE_HEIGHT |-> ZEROS[k - 1]] }

\* A never-stored leaf value with a forged sibling list at any position.
ForgedInputs ==
    { [leaf |-> FakeLeaf, proof |-> MerkleProof(j, s)] :
         j \in 0..(Capacity - 1), s \in ZeroLists }

\* The all-zero value with the path of the first empty position, which the
\* caller computes on a copy of the tree with that value pushed.
EmptySlotInputs ==
    { [leaf |-> <<0>>,
       proof |-> prove(push_leaf(self, <<0>>), Len(leaves))[1]] }

\* The upper part of a real proof, handed in with the node below it as the
\* leaf (a = TREE_HEIGHT leaves no sibling at all), and the empty sibling
\* list with any value as the leaf.
ShortInputs ==
    { [leaf |-> verify_path(0, leaves[i + 1], i, ProofOf(i).siblings)[a + 1],
       proof |-> MerkleProof(i \div Pow2(a),
                             SubSeq(ProofOf(i).siblings, a + 1, TREE_HEIGHT))] :
         i \in Indices, a \in 1..TREE_HEIGHT }
    \cup
    { [leaf |-> v, proof |-> MerkleProof(0, <<>>)] : v \in Substitutes }

\* A real proof with one more sibling appended.
LongInputs ==
    { [leaf |-> leaves[i + 1],
       proof |-> [ProofOf(i) EXCEPT !.siblings = Append(@, <<0>>)]] :
         i \in Indices }

VerifyInputs ==
    LeafInputs \cup SiblingInputs \cup IndexInputs \cup ForgedInputs
    \cup EmptySlotInputs \cup ShortInputs \cup LongInputs

\* MerkleTree::verify_proof(leaf, &proof, tree.root())
VerifyProof ==
    \E in \in VerifyInputs :
        /\ result' = Result("verify_proof", Some(in.leaf), in.proof.leaf_index,
                            Some(in.proof), Some(root(self)),
                            verify_proof(in.leaf, in.proof, root(self)))
        /\ UNCHANGED <<leaves, filled_subtrees, next_index, pushes,
                       run, committed, recorded, call>>

Next ==
    \/ PushLeaf
    \/ Root
    \/ LeafCount
    \/ GetLeaf
    \/ Prove
    \/ VerifyProof

Spec == Init /\ [][Next]_vars

----------------------------------------------------------------------------
\* Inputs of the proving program: what a host can write to its stdin.

\* The owners of the host's demo transaction.
alice_owner == [k \in 1..32 |-> k]

bob_owner == [k \in 1..32 |-> 32 + k]

\* The notes of the host's demo transaction.
alice_input_note == Note(100, alice_owner, bytes32(66))

bob_output_note == Note(50, bob_owner, bytes32(67))

alice_change_note == Note(50, alice_owner, bytes32(68))

\* A second note a ledger can hold, an output above every input, an output
\* that brings the sum of the outputs past the integer width, and a note that
\* is never added to the ledger.
bob_input_note == Note(50, bob_owner, bytes32(69))

inflated_output_note == Note(200, bob_owner, bytes32(70))

overflow_output_note == Note(AmountMax, bob_owner, bytes32(71))

fake_note == Note(AmountMax, alice_owner, bytes32(72))

\* The notes the host adds to its ledger.
GenesisNotes == { alice_input_note, bob_input_note }

\* let dummy_sig = [0u8; 65];
dummy_sig == [k \in 1..65 |-> 0]

\* The owner's deterministic signature over the note's commitment: 65 bytes
\* fixed by the note.
sign(note) ==
    [k \in 1..65 |->
        (note.amount + note.owner_pubkey[1] + note.blinding[1]) % 256]

\* The note whose commitment is the leaf at index i of the host's tree.
NoteAt(i) == CHOOSE n \in GenesisNotes : commit(n) = leaves[i + 1]

\* The witness the host builds for spending the notes at the indices idxs
\* into the notes outs, without the precomputed values.
PlainWitness(idxs, outs) ==
    Witness_new([k \in 1..Len(idxs) |-> NoteAt(idxs[k])],
                idxs,
                [k \in 1..Len(idxs) |-> ProofOf(idxs[k])],
                [k \in 1..Len(idxs) |-> sign(NoteAt(idxs[k]))],
                [k \in 1..Len(idxs) |-> dummy_sig],
                outs)

\* The same with the precomputed values, as the host sends it.
HostWitness(idxs, outs) == with_precomputed_values(PlainWitness(idxs, outs))

\* No input, one input, two inputs, the same input twice.
InputChoices ==
    { <<>> } \cup { <<i>> : i \in Indices }
             \cup { <<i, j>> : i \in Indices, j \in Indices }

\* No output, one, the demo's two, more than the inputs hold, an overflow.
OutputChoices ==
    { <<>>, <<bob_output_note>>, <<bob_output_note, alice_change_note>>,
      <<inflated_output_note>>, <<overflow_output_note, bob_output_note>> }

HostWitnesses ==
    { HostWitness(idxs, outs) : idxs \in InputChoices, outs \in OutputChoices }

\* The demo spend of the note at index i.
DemoWitness(i) == HostWitness(<<i>>, <<bob_output_note, alice_change_note>>)

\* The demo spend sent without, or with other, precomputed values.
PrecomputedInputs ==
    UNION { { PlainWitness(<<i>>, <<bob_output_note, alice_change_note>>),
              [DemoWitness(i) EXCEPT
                 !.precomputed_input_commitments = <<commit(fake_note)>>],
              [DemoWitness(i) EXCEPT
                 !.precomputed_input_commitments = <<>>],
              [DemoWitness(i) EXCEPT
                 !.precomputed_input_commitments =
                     <<commit(NoteAt(i)), commit(fake_note)>>],
              [DemoWitness(i) EXCEPT
                 !.precomputed_output_commitments[2] = commit(fake_note)],
              [DemoWitness(i) EXCEPT
                 !.precomputed_output_commitments = <<>>],
              [DemoWitness(i) EXCEPT
                 !.precomputed_nullifiers = <<compute_nullifier(dummy_sig)>>] }
            : i \in Indices }

\* The demo spend with one of the per-input lists one short.
StructureInputs ==
    UNION { { [DemoWitness(i) EXCEPT !.input_indices = <<>>],
              [DemoWitness(i) EXCEPT !.input_proofs = <<>>],
              [DemoWitness(i) EXCEPT !.nullifier_signatures = <<>>],
              [DemoWitness(i) EXCEPT !.tx_signatures = <<>>] }
            : i \in Indices }

\* A witness with the proof of its last input replaced: a sibling changed,
\* or the proof of the next index.
ProofInputs ==
    UNION { { [w EXCEPT !.input_proofs[Len(w.input_proofs)].siblings[1] =
                            FakeLeaf],
              [w EXCEPT !.input_proofs[Len(w.input_proofs)].leaf_index =
                            w.input_proofs[Len(w.input_proofs)].leaf_index + 1] }
            : w \in { HostWitness(idxs, <<bob_output_note>>) :
                        idxs \in InputChoices \ { <<>> } } }

\* The fabricated note spent in place of the note at index i, with i's proof.
FakeWitness(i) ==
    with_precomputed_values(
        Witness_new(<<fake_note>>, <<i>>, <<ProofOf(i)>>, <<sign(fake_note)>>,
                    <<dummy_sig>>, <<inflated_output_note>>))

\* The tree of a host that added the fabricated note itself.
attacker_tree == push_leaf(new, commit(fake_note))

\* The fabricated note spent with the proof and the root of that tree.
AttackerInput ==
    [public_inputs |-> PublicInputs(root(attacker_tree)),
     witness |-> with_precomputed_values(
         Witness_new(<<fake_note>>, <<0>>, <<prove(attacker_tree, 0)[1]>>,
                     <<sign(fake_note)>>, <<dummy_sig>>,
                     <<inflated_output_note>>))]

\* What the program reads: witnesses against the root of the host's ledger,
\* and the one against a root of the sender's own making.
ProgramInputs ==
    { [public_inputs |-> PublicInputs(root(self)), witness |-> w] :
        w \in HostWitnesses \cup PrecomputedInputs \cup StructureInputs
              \cup ProofInputs \cup { FakeWitness(i) : i \in Indices } }
    \cup { AttackerInput }

----------------------------------------------------------------------------
\* The host's ledger and the runs of the proving program.

\* ledger.add_note(note) on the host, before it starts the program.
AddNote ==
    \E note \in GenesisNotes :
        /\ run.pc = "idle"
        /\ \A k \in 1..Len(leaves) : leaves[k] # commit(note)
        /\ leaves' = add_note([tree |-> self, nullifiers |-> {}], note).tree.leaves
        /\ filled_subtrees' =
               add_note([tree |-> self, nullifiers |-> {}], note).tree.filled_subtrees
        /\ next_index' =
               add_note([tree |-> self, nullifiers |-> {}], note).tree.next_index
        /\ pushes' = Append(pushes, [leaf |-> commit(note),
                                     index |-> push_leaf_index(self)])
        /\ result' = Result("add_note", Some(commit(note)),
                            push_leaf_index(self), None, None, FALSE)
        /\ UNCHANGED <<run, committed, recorded, call>>

\* A run that panics: the failure and the checks run up to it.
panic(failed, checks) ==
    [run EXCEPT !.pc = "aborted", !.failed = failed,
                !.checks = run.checks \o checks]

\* STEP 1: io::read of the public inputs and the witness. The nullifiers an
\* earlier run committed stay in the public record.
ReadInputs ==
    \E in \in ProgramInputs :
        /\ run.pc \in {"idle", "done", "aborted"}
        /\ run' = Run("step2", in.public_inputs, in.witness, None, None,
                      "", <<>>)
        /\ recorded' = recorded \cup
               (IF committed = None THEN {}
                ELSE { committed[1].nullifiers[i] :
                         i \in 1..Len(committed[1].nullifiers) })
        /\ committed' = None
        /\ UNCHANGED <<leaves, filled_subtrees, next_index, pushes, result,
                   call>>

\* STEP 2: structure, value conservation, at least one input or output.
ValidateWitness ==
    /\ run.pc = "step2"
    /\ run' = IF ~structure_ok(run.witness)
              THEN panic("StructuralError", <<"structure">>)
              ELSE IF ~conservation_ok(run.witness)
              THEN panic("ConservationError", <<"structure", "conservation">>)
              ELSE IF ~nonempty_ok(run.witness)
              THEN panic("StructuralError",
                         <<"structure", "conservation", "nonempty">>)
              ELSE [run EXCEPT !.pc = "step3",
                               !.checks = <<"structure", "conservation",
                                            "nonempty">>]
    /\ UNCHANGED <<leaves, filled_subtrees, next_index, pushes, result,
                   committed, recorded, call>>

\* STEP 3: Ledger::new(), then the precomputed input commitments.
VerifyPrecomputed ==
    /\ run.pc = "step3"
    /\ run' = IF ~input_commitments_ok(run.witness)
              THEN [panic("CommitmentMismatchError", <<"input_commitments">>)
                       EXCEPT !.ledger = Some(Ledger_new)]
              ELSE [run EXCEPT !.pc = "step4",
                               !.ledger = Some(Ledger_new),
                               !.checks = run.checks \o <<"input_commitments">>]
    /\ UNCHANGED <<leaves, filled_subtrees, next_index, pushes, result,
                   committed, recorded, call>>

\* STEP 4: one Merkle proof per input note, each verified against old_root.
VerifyMerkle ==
    /\ run.pc = "step4"
    /\ run' = IF ~proof_count_ok(run.witness)
              THEN panic("MerkleInclusionError", <<"proof_count">>)
              ELSE IF ~merkle_inclusion_ok(run.public_inputs, run.witness)
              THEN panic("MerkleInclusionError", <<"proof_count", "merkle">>)
              ELSE [run EXCEPT !.pc = "step5",
                               !.checks = run.checks
                                          \o <<"proof_count", "merkle">>]
    /\ UNCHANGED <<leaves, filled_subtrees, next_index, pushes, result,
                   committed, recorded, call>>

\* STEP 5: the optimized path on the local ledger, or the disabled standard
\* path; on success old_root is set from the public inputs.
Execute ==
    /\ run.pc = "step5"
    /\ LET res == IF has_precomputed_values(run.witness)
                  THEN optimized_path(run.ledger[1], run.witness)
                  ELSE standard_path(run.ledger[1], run.witness)
       IN  run' = IF res.error # Ok
                  THEN [panic(res.error, <<"execute">>)
                           EXCEPT !.ledger = Some(res.ledger)]
                  ELSE [run EXCEPT
                          !.pc = "step6",
                          !.ledger = Some(res.ledger),
                          !.public_outputs =
                              Some(with_old_root(res.outputs[1],
                                                 run.public_inputs)),
                          !.checks = run.checks \o <<"execute">>]
    /\ UNCHANGED <<leaves, filled_subtrees, next_index, pushes, result,
                   committed, recorded, call>>

\* STEP 6: the counts of nullifiers and commitments.
FinalValidation ==
    /\ run.pc = "step6"
    /\ run' = IF ~counts_ok(run.public_outputs[1], run.witness)
              THEN panic("CountMismatch", <<"counts">>)
              ELSE [run EXCEPT !.pc = "step7",
                               !.checks = run.checks \o <<"counts">>]
    /\ UNCHANGED <<leaves, filled_subtrees, next_index, pushes, result,
                   committed, recorded, call>>

\* STEP 7: io::commit_slice of the ABI-encoded PublicOutputsSol.
CommitOutputs ==
    /\ run.pc = "step7"
    /\ committed' = Some(PublicOutputsSol(run.public_outputs[1]))
    /\ run' = [run EXCEPT !.pc = "done"]
    /\ UNCHANGED <<leaves, filled_subtrees, next_index, pushes, result,
                   recorded, call>>

ProgramNext ==
    \/ AddNote
    \/ ReadInputs
    \/ ValidateWitness
    \/ VerifyPrecomputed
    \/ VerifyMerkle
    \/ Execute
    \/ FinalValidation
    \/ CommitOutputs

ProgramSpec == Init /\ [][ProgramNext]_vars

----------------------------------------------------------------------------
\* Helpers of the properties.

\* prove(i) of the stored leaf i verifies against the current root.
Valid(i) == verify_proof(leaves[i + 1], ProofOf(i), root(self))

\* Bit l of an index: the side taken at level l.
Bit(j, l) == (j \div Pow2(l)) % 2

\* The reference root: pad the leaf list to 2^H entries with ZEROS[0] and
\* hash pairs bottom-up through H levels.
PadTo(s, n) == [k \in 1..n |-> IF k <= Len(s) THEN s[k] ELSE ZEROS[0]]

HashPairs(s) == [k \in 1..(Len(s) \div 2) |-> hash_pair(s[2 * k - 1], s[2 * k])]

RECURSIVE HashUp(_, _)
HashUp(s, levels) == IF levels = 0 THEN s[1] ELSE HashUp(HashPairs(s), levels - 1)

ReferenceRoot(ls) == HashUp(PadTo(ls, Capacity), TREE_HEIGHT)

----------------------------------------------------------------------------
\* C1 (as stated): for every sequence of pushed leaves that pads to 2^H
\* entries, the empty one included, root() equals the reference root.
C1_RootIsReferenceAlways ==
    (result.op = "root" /\ Len(leaves) <= Capacity)
        => result.value = Some(ReferenceRoot(leaves))

\* C1 (amended): for every non-empty sequence of at most 2^H pushed leaves,
\* root() equals the reference root of the padded leaf list; the empty tree's
\* root is ZEROS[H-1], one level below the reference root.
C1_RootIsReference ==
    /\ (Len(leaves) >= 1 /\ Len(leaves) <= Capacity)
          => root(self) = ReferenceRoot(leaves)
    /\ Len(leaves) = 0
          => /\ root(self) = ZEROS[TREE_HEIGHT - 1]
             /\ ReferenceRoot(leaves) = hash_pair(root(self), root(self))

C1_Witness ==
    /\ result.op = "root"
    /\ Len(leaves) = 3
    /\ leaves[2] # leaves[3]
    /\ result.value = Some(ReferenceRoot(leaves))

\* C2: in every tree state, for every index i < leaf_count,
\* verify_proof(get_leaf(i), prove(i), root()) is true.
C2_ProofCompleteness ==
    \A i \in Indices :
        (/\ result.op = "verify_proof"
         /\ result.leaf = get_leaf(self, i)
         /\ result.proof = prove(self, i)
         /\ result.value = Some(root(self)))
            => result.ok

\* C3: a leaf value that was never pushed verifies against root() with no
\* proof a caller can supply.
C3_FabricatedLeafRejected ==
    (result.op = "verify_proof" /\ result.leaf[1] \notin SeqRange(leaves))
        => ~result.ok

\* C4: a valid proof of a stored leaf L rejects every other leaf value.
C4_WrongLeafRejected ==
    LET r == root(self)
        vals == Values
    IN  \A i \in Indices :
            LET p == ProofOf(i)
            IN  verify_proof(leaves[i + 1], p, r) =>
                    \A v \in vals :
                        v # leaves[i + 1] => ~verify_proof(v, p, r)

C4_Witness ==
    /\ result.op = "verify_proof"
    /\ \E i \in Indices :
          /\ Valid(i)
          /\ result.proof = Some(ProofOf(i))
          /\ result.leaf # Some(leaves[i + 1])
    /\ ~result.ok

\* C5: a valid proof of a stored leaf with any one sibling replaced by a
\* different value is rejected.
C5_CorruptedSiblingRejected ==
    LET r == root(self)
        vals == Values
    IN  \A i \in Indices :
            LET p == ProofOf(i)
            IN  verify_proof(leaves[i + 1], p, r) =>
                    \A l \in 1..TREE_HEIGHT : \A v \in vals :
                        v # p.siblings[l] =>
                            ~verify_proof(leaves[i + 1],
                                          [p EXCEPT !.siblings[l] = v], r)

C5_Witness ==
    /\ result.op = "verify_proof"
    /\ \E i \in Indices : \E l \in 1..TREE_HEIGHT :
          /\ Valid(i)
          /\ result.leaf = Some(leaves[i + 1])
          /\ result.proof[1].leaf_index = i
          /\ Len(result.proof[1].siblings) = TREE_HEIGHT
          /\ l = TREE_HEIGHT
          /\ result.proof[1].siblings[l] # ProofOf(i).siblings[l]
          /\ \A m \in 1..TREE_HEIGHT :
                m # l => result.proof[1].siblings[m] = ProofOf(i).siblings[m]
    /\ ~result.ok

\* C6 (as stated): a valid proof of a stored leaf with leaf_index changed
\* to any other unsigned value is rejected.
C6_AnyOtherIndexRejected ==
    \A i \in Indices :
        (/\ result.op = "verify_proof"
         /\ Valid(i)
         /\ result.leaf = Some(leaves[i + 1])
         /\ result.proof[1].siblings = ProofOf(i).siblings
         /\ result.proof[1].leaf_index # i)
            => ~result.ok

\* C6 (amended): a valid proof of a stored leaf with leaf_index changed to j
\* is rejected exactly when j differs from the leaf's index in some bit
\* l < H at which siblings[l] differs from the node of the leaf's path at
\* level l; an index that differs only in bits >= H, or only at levels where
\* the sibling equals the path node, is still accepted.
C6_WrongIndexRejected ==
    LET r == root(self)
    IN  \A i \in Indices :
            LET p == ProofOf(i)
                path == verify_path(0, leaves[i + 1], i, p.siblings)
            IN  verify_proof(leaves[i + 1], p, r) =>
                    \A j \in 0..MaxIndex :
                        LET differs == \E l \in 0..(TREE_HEIGHT - 1) :
                                          /\ Bit(j, l) # Bit(i, l)
                                          /\ p.siblings[l + 1] # path[l + 1]
                        IN  verify_proof(leaves[i + 1],
                                         [p EXCEPT !.leaf_index = j], r)
                                <=> ~differs

C6_Witness ==
    /\ result.op = "verify_proof"
    /\ \E i \in Indices :
          /\ Valid(i)
          /\ result.leaf = Some(leaves[i + 1])
          /\ result.proof[1].siblings = ProofOf(i).siblings
          /\ result.proof[1].leaf_index # i
          /\ result.proof[1].leaf_index < Capacity
          /\ leaves[i + 1] # <<0>>
    /\ ~result.ok

\* C7: prove(i) of every stored index returns exactly H siblings and
\* leaf_index i, however many leaves the tree holds.
C7_FixedProofShape ==
    \A i \in Indices :
        /\ prove(self, i) # None
        /\ Len(ProofOf(i).siblings) = TREE_HEIGHT
        /\ ProofOf(i).leaf_index = i

C7_Witness ==
    /\ result.op = "prove"
    /\ Len(leaves) = 1
    /\ result.index = 0
    /\ result.proof # None
    /\ Len(result.proof[1].siblings) = TREE_HEIGHT
    /\ result.proof[1].leaf_index = 0

\* C8: verify_proof accepts only proofs with exactly H siblings.
C8_OnlyFullLengthAccepted ==
    (result.op = "verify_proof" /\ Len(result.proof[1].siblings) # TREE_HEIGHT)
        => ~result.ok

\* C9: prove(leaf_index) returns None if and only if leaf_index >= the
\* leaf count (every index on an empty tree), and the call leaves the tree
\* as it was.
C9_ProveAbsentIffOutOfRange ==
    [][result'.op = "prove" =>
          /\ (result'.proof = None) <=> (result'.index >= Len(leaves))
          /\ (Len(leaves) = 0 => result'.proof = None)
          /\ UNCHANGED <<leaves, filled_subtrees, next_index>>]_vars

C9_Witness ==
    /\ result.op = "prove"
    /\ Len(leaves) >= 1
    /\ result.index = Len(leaves)
    /\ result.proof = None

\* C10: the k-th push returns k-1 (the pre-increment next_index), with no
\* gaps, and get_leaf of the returned index is the leaf just pushed.
C10_PushReturnsIndex ==
    /\ \A k \in 1..Len(pushes) :
          /\ pushes[k].index = k - 1
          /\ get_leaf(self, pushes[k].index) = Some(pushes[k].leaf)
    /\ result.op = "push_leaf" =>
          /\ result.index = next_index - 1
          /\ get_leaf(self, result.index) = result.leaf

C10_Witness ==
    /\ result.op = "push_leaf"
    /\ result.index = 2
    /\ Len(pushes) = 3
    /\ pushes[3].index = 2

\* C11: the root of the empty tree is ZEROS[TREE_HEIGHT - 1], whatever was done
\* to other trees before; ZEROS[0] is the all-zero value and each further entry
\* is hash_pair of the entry below with itself; a new tree starts from a copy
\* of the table, and pushing leaves into the tree leaves the table's entries
\* and the root of a new tree as they were.
C11_EmptyRootIsTopZero ==
    /\ ZEROS[0] = <<0>>
    /\ \A i \in 1..(TREE_HEIGHT - 1) : ZEROS[i] = hash_pair(ZEROS[i - 1], ZEROS[i - 1])
    /\ new.filled_subtrees = ZEROS
    /\ root(new) = ZEROS[TREE_HEIGHT - 1]
    /\ (Len(leaves) = 0 => root(self) = ZEROS[TREE_HEIGHT - 1])
    /\ (result.op = "root" /\ Len(leaves) = 0
          => result.value = Some(ZEROS[TREE_HEIGHT - 1]))

C11_Witness ==
    /\ result.op = "root"
    /\ Len(leaves) = 0
    /\ result.value = Some(ZEROS[TREE_HEIGHT - 1])
    /\ ZEROS[TREE_HEIGHT - 1] # ZEROS[0]

----------------------------------------------------------------------------
\* Properties of the proving program.

\* The exact sum of the amounts of a list of notes.
RECURSIVE TotalAmount(_)
TotalAmount(notes) ==
    IF notes = <<>> THEN 0 ELSE notes[1].amount + TotalAmount(Tail(notes))

\* The elements of a sequence.
Range(s) == { s[k] : k \in 1..Len(s) }

\* The current run has committed its public outputs.
Accepted == committed # None

\* The current run is past step k of main (aborted or not).
PastStep2 == run.pc \notin {"idle", "step2"}

PastStep4 == run.pc \notin {"idle", "step2", "step3", "step4"}

PastStep5 == run.pc \notin {"idle", "step2", "step3", "step4", "step5"}

\* Every input note of the current witness has a proof that verifies against
\* the asserted old_root.
EveryProofVerifies ==
    \A i \in 1..Len(run.witness.input_notes) :
        /\ i <= Len(run.witness.input_proofs)
        /\ verify_proof(commit(run.witness.input_notes[i]),
                        run.witness.input_proofs[i],
                        run.public_inputs.old_root)

\* The per-input lists of the current witness have the length of input_notes
\* and the transaction is not empty.
StructureHolds ==
    /\ Len(run.witness.input_indices) = Len(run.witness.input_notes)
    /\ Len(run.witness.input_proofs) = Len(run.witness.input_notes)
    /\ Len(run.witness.nullifier_signatures) = Len(run.witness.input_notes)
    /\ Len(run.witness.tx_signatures) = Len(run.witness.input_notes)
    /\ (run.witness.input_notes # <<>> \/ run.witness.output_notes # <<>>)

\* The amounts of the current witness conserve value without overflow.
ConservationHolds ==
    /\ TotalAmount(run.witness.input_notes) <= AmountMax
    /\ TotalAmount(run.witness.output_notes) <= AmountMax
    /\ TotalAmount(run.witness.input_notes)
         >= TotalAmount(run.witness.output_notes)

\* Every precomputed commitment of the current witness is the commitment of
\* the note at its position.
CommitmentsHold ==
    /\ \A i \in 1..Len(run.witness.precomputed_input_commitments) :
          /\ i <= Len(run.witness.input_notes)
          /\ run.witness.precomputed_input_commitments[i]
               = commit(run.witness.input_notes[i])
    /\ \A j \in 1..Len(run.witness.precomputed_output_commitments) :
          /\ j <= Len(run.witness.output_notes)
          /\ run.witness.precomputed_output_commitments[j]
               = commit(run.witness.output_notes[j])

\* No two inputs of the current witness have the same nullifier.
NoCollision ==
    \A i, j \in 1..Len(run.witness.nullifier_signatures) :
        i # j => compute_nullifier(run.witness.nullifier_signatures[i])
                   # compute_nullifier(run.witness.nullifier_signatures[j])

\* The run has left no trace: nothing committed, no public outputs built,
\* and its ledger, if created, is as Ledger::new() made it.
NothingDone ==
    /\ committed = None
    /\ run.public_outputs = None
    /\ run.ledger \in {None, Some(Ledger_new)}

\* C12: public outputs are committed only if verify_proof(commit(note), proof,
\* public_inputs.old_root) is true for every input note; when one proof
\* fails the run is aborted, step 5 has not run and nothing is committed.
C12_MerkleInclusionMandatory ==
    /\ Accepted => EveryProofVerifies
    /\ (PastStep4 /\ ~EveryProofVerifies) =>
          /\ run.pc = "aborted"
          /\ "execute" \notin Range(run.checks)
          /\ NothingDone

C12_Witness ==
    /\ run.pc = "aborted"
    /\ run.failed = "MerkleInclusionError"
    /\ run.checks[Len(run.checks)] = "merkle"
    /\ Len(run.witness.input_notes) = 2
    /\ Len(run.witness.input_proofs) = 2
    /\ verify_proof(commit(run.witness.input_notes[1]),
                    run.witness.input_proofs[1], run.public_inputs.old_root)
    /\ ~verify_proof(commit(run.witness.input_notes[2]),
                     run.witness.input_proofs[2], run.public_inputs.old_root)
    /\ NothingDone

\* C13: a run in which any check fails (structure, conservation, commitment
\* consistency, Merkle inclusion, double spend) is aborted with no output
\* commitment appended to its ledger, no nullifier recorded in it and no
\* public outputs committed: the ledger is as it was before the transaction.
C13_AtomicRejection ==
    /\ run.pc = "aborted" => NothingDone
    /\ Accepted => /\ StructureHolds
                   /\ ConservationHolds
                   /\ CommitmentsHold
                   /\ EveryProofVerifies
                   /\ NoCollision
    /\ (PastStep5 /\ ~(StructureHolds /\ ConservationHolds /\ CommitmentsHold
                       /\ EveryProofVerifies /\ NoCollision))
          => run.pc = "aborted"

C13_Witness ==
    /\ run.pc = "aborted"
    /\ run.failed = "DoubleSpendError"
    /\ ~NoCollision
    /\ run.witness.output_notes # <<>>
    /\ run.ledger = Some(Ledger_new)
    /\ committed = None

\* C14: a witness without precomputed values never gets public outputs
\* committed; when every structural, conservation and Merkle check passed
\* the run is aborted by the disabled standard path, with nothing done.
C14_StandardPathRejected ==
    /\ (Accepted \/ run.public_outputs # None)
          => has_precomputed_values(run.witness)
    /\ (PastStep5 /\ ~has_precomputed_values(run.witness)) =>
          /\ run.pc = "aborted"
          /\ NothingDone
          /\ (StructureHolds /\ ConservationHolds /\ EveryProofVerifies)
                => run.failed = "StandardPathDisabled"

C14_Witness ==
    /\ run.pc = "aborted"
    /\ run.failed = "StandardPathDisabled"
    /\ ~has_precomputed_values(run.witness)
    /\ StructureHolds
    /\ ConservationHolds
    /\ EveryProofVerifies
    /\ run.witness.input_notes # <<>>
    /\ NothingDone

\* C15: the old_root of the committed public outputs is public_inputs.old_root
\* as read, whatever the root of the program's ledger or of the host's.
C15_OldRootPassedThrough ==
    /\ Accepted => committed[1].oldRoot = run.public_inputs.old_root
    /\ run.public_outputs # None =>
          run.public_outputs[1].old_root = run.public_inputs.old_root

C15_Witness ==
    /\ Accepted
    /\ committed[1].oldRoot = run.public_inputs.old_root
    /\ committed[1].oldRoot # current_root(Ledger_new)
    /\ committed[1].oldRoot # current_root(run.ledger[1])
    /\ committed[1].oldRoot # root(self)

\* C16: the committed public outputs hold exactly one nullifier per input, in
\* input order, nullifiers[i] being the hash of input i's nullifier
\* signature, and exactly one commitment per output, in output order,
\* outputCommitments[j] being commit(output_notes[j]).
C16_OnePerInputAndOutput ==
    Accepted =>
        /\ Len(committed[1].nullifiers) = Len(run.witness.input_notes)
        /\ Len(run.witness.nullifier_signatures) = Len(run.witness.input_notes)
        /\ \A i \in 1..Len(run.witness.input_notes) :
              committed[1].nullifiers[i]
                = compute_nullifier(run.witness.nullifier_signatures[i])
        /\ Len(committed[1].outputCommitments) = Len(run.witness.output_notes)
        /\ \A j \in 1..Len(run.witness.output_notes) :
              committed[1].outputCommitments[j]
                = commit(run.witness.output_notes[j])

C16_Witness ==
    /\ Accepted
    /\ Len(run.witness.input_notes) = 2
    /\ Len(run.witness.output_notes) = 2
    /\ committed[1].nullifiers =
          <<compute_nullifier(run.witness.nullifier_signatures[1]),
            compute_nullifier(run.witness.nullifier_signatures[2])>>
    /\ committed[1].nullifiers[1] # committed[1].nullifiers[2]
    /\ committed[1].outputCommitments =
          <<commit(run.witness.output_notes[1]),
            commit(run.witness.output_notes[2])>>
    /\ committed[1].outputCommitments[1] # committed[1].outputCommitments[2]

\* C17: with precomputed values, every supplied commitment is compared with
\* commit() of the note at its position: a run whose witness carries a
\* precomputed commitment that differs from the recomputed one is aborted,
\* and no accepted transaction carries one.
C17_CommitmentConsistency ==
    /\ Accepted => CommitmentsHold
    /\ (PastStep5 /\ ~CommitmentsHold) =>
          /\ run.pc = "aborted"
          /\ NothingDone
    /\ (run.pc \notin {"idle", "step2", "step3"}
        /\ run.pc # "aborted"
        /\ has_precomputed_values(run.witness)) =>
          \A i \in 1..Len(run.witness.input_notes) :
              run.witness.precomputed_input_commitments[i]
                = commit(run.witness.input_notes[i])

C17_Witness ==
    /\ run.pc = "aborted"
    /\ run.failed = "CommitmentMismatchError"
    /\ run.checks[Len(run.checks)] = "input_commitments"
    /\ Len(run.witness.precomputed_input_commitments) = 1
    /\ Len(run.witness.input_notes) = 1
    /\ run.witness.precomputed_input_commitments[1]
         # commit(run.witness.input_notes[1])
    /\ EveryProofVerifies
    /\ NothingDone

\* C18: an accepted transaction's input amounts sum to at least its output
\* amounts, both sums within the integer width; a witness whose sums overflow
\* or whose outputs exceed its inputs is rejected by the conservation check,
\* the second check run.
C18_ValueConservation ==
    /\ Accepted => ConservationHolds
    /\ (PastStep2 /\ StructureHolds /\ ~ConservationHolds) =>
          /\ run.pc = "aborted"
          /\ run.failed = "ConservationError"
          /\ run.checks = <<"structure", "conservation">>
          /\ NothingDone

C18_Witness ==
    /\ run.pc = "aborted"
    /\ run.failed = "ConservationError"
    /\ StructureHolds
    /\ TotalAmount(run.witness.output_notes) > AmountMax
    /\ TotalAmount(run.witness.output_notes) % (AmountMax + 1)
         <= TotalAmount(run.witness.input_notes)
    /\ NothingDone

\* C19: a transaction is accepted only if the numbers of input notes, input
\* indices, Merkle proofs and per-input signatures are all equal and it has
\* at least one input or output; a witness violating this is rejected by the
\* first check, before any other check has run and before the ledger exists.
C19_StructuralCheck ==
    /\ Accepted => StructureHolds
    /\ (PastStep2 /\ ~StructureHolds) =>
          /\ run.pc = "aborted"
          /\ run.failed = "StructuralError"
          /\ run.checks = <<"structure">>
          /\ run.ledger = None
          /\ NothingDone

C19_Witness ==
    /\ run.pc = "aborted"
    /\ run.checks = <<"structure">>
    /\ Len(run.witness.input_indices) # Len(run.witness.input_notes)
    /\ Len(run.witness.input_proofs) = Len(run.witness.input_notes)
    /\ ConservationHolds
    /\ CommitmentsHold
    /\ EveryProofVerifies
    /\ run.ledger = None
    /\ NothingDone

\* The nullifiers the current run committed.
CommittedNullifiers ==
    IF committed = None THEN {} ELSE Range(committed[1].nullifiers)

Ended == run.pc \in {"done", "aborted"}

\* The precomputed values of the current witness are the ones the host
\* computes from its notes and signatures.
PrecomputedHold == run.witness = with_precomputed_values(run.witness)

\* Every check of the transaction passes for the current witness.
EveryCheckPasses ==
    /\ StructureHolds
    /\ ConservationHolds
    /\ PrecomputedHold
    /\ EveryProofVerifies
    /\ NoCollision

\* The host's ledger: its tree, no nullifier used yet.
host_ledger == [tree |-> self, nullifiers |-> {}]

\* C21: a transaction with inputs and no outputs that passes every check is
\* accepted; the tree of the ledger it executed on has the root and the leaf
\* count it had before, and the nullifier of each input is in the registry.
\* The same holds for executing it on the host's ledger.
C21_ZeroOutputSpend ==
    (run.witness.output_notes = <<>> /\ run.witness.input_notes # <<>>) =>
        /\ (Ended /\ EveryCheckPasses) => Accepted
        /\ Accepted =>
              /\ committed[1].outputCommitments = <<>>
              /\ current_root(run.ledger[1]) = current_root(Ledger_new)
              /\ leaf_count(run.ledger[1].tree) = leaf_count(Ledger_new.tree)
              /\ run.ledger[1].tree = Ledger_new.tree
              /\ run.ledger[1].nullifiers =
                    { compute_nullifier(run.witness.nullifier_signatures[i]) :
                        i \in 1..Len(run.witness.input_notes) }
              /\ run.ledger[1].nullifiers # Ledger_new.nullifiers
              /\ optimized_path(host_ledger, run.witness).error = Ok
              /\ optimized_path(host_ledger, run.witness).ledger.tree = self
              /\ optimized_path(host_ledger, run.witness).ledger.nullifiers
                    = run.ledger[1].nullifiers

C21_Witness ==
    /\ Accepted
    /\ Len(run.witness.input_notes) = 2
    /\ run.witness.output_notes = <<>>
    /\ EveryCheckPasses
    /\ current_root(run.ledger[1]) = ZEROS[TREE_HEIGHT - 1]
    /\ Cardinality(run.ledger[1].nullifiers) = 2

\* The current run is the demo transaction: Alice's 100 note, held by the
\* host's ledger, spent into 50 to Bob and 50 change, with the proof the
\* ledger gives against its current root.
DemoRun ==
    /\ run.pc # "idle"
    /\ \E i \in Indices :
          /\ leaves[i + 1] = commit(alice_input_note)
          /\ run.witness = DemoWitness(i)
    /\ run.public_inputs = PublicInputs(root(self))

\* C22: the demo transaction is accepted, commits exactly one nullifier and
\* two output commitments, and the root of the ledger after execution differs
\* from the root before, on the program's ledger and on the host's.
C22_DemoAccepted ==
    DemoRun =>
        /\ run.pc # "aborted"
        /\ Ended => Accepted
        /\ Accepted =>
              /\ Len(committed[1].nullifiers) = 1
              /\ Len(committed[1].outputCommitments) = 2
              /\ committed[1].outputCommitments =
                    <<commit(bob_output_note), commit(alice_change_note)>>
              /\ current_root(run.ledger[1]) # current_root(Ledger_new)
              /\ optimized_path(host_ledger, run.witness).error = Ok
              /\ current_root(optimized_path(host_ledger, run.witness).ledger)
                    # current_root(host_ledger)

C22_Witness ==
    /\ DemoRun
    /\ Accepted
    /\ leaves = <<commit(alice_input_note)>>
    /\ TotalAmount(run.witness.input_notes) = 100
    /\ TotalAmount(run.witness.output_notes) = 100
    /\ Len(committed[1].nullifiers) = 1
    /\ Len(committed[1].outputCommitments) = 2

----------------------------------------------------------------------------
\* BLAKE3 as the blake3 crate computes it, for an input of one chunk: the
\* digests the test vectors of note.rs pin down.
\* 16-bit exclusive or.
RECURSIVE xor16(_, _)
xor16(a, b) ==
    IF a = 0 THEN b
    ELSE IF b = 0 THEN a
    ELSE ((a + b) % 2) + 2 * xor16(a \div 2, b \div 2)

\* 32-bit words as <<high half, low half>>, each half 0..65535.
add32(x, y) ==
    <<(x[1] + y[1] + ((x[2] + y[2]) \div 65536)) % 65536, (x[2] + y[2]) % 65536>>

xor32(x, y) == <<xor16(x[1], y[1]), xor16(x[2], y[2])>>

\* Rotation to the right by r bits, 0 < r <= 16.
rotr32(x, r) ==
    IF r = 16 THEN <<x[2], x[1]>>
    ELSE <<(x[1] \div (2 ^ r)) + (x[2] % (2 ^ r)) * (2 ^ (16 - r)),
           (x[2] \div (2 ^ r)) + (x[1] % (2 ^ r)) * (2 ^ (16 - r))>>

\* The initialisation vector of BLAKE3.
BLAKE3_IV == <<<<27145, 58983>>, <<47975, 44677>>, <<15470, 62322>>, <<42319, 62778>>, <<20750, 21119>>, <<39685, 26764>>, <<8067, 55723>>, <<23520, 52505>>>>

\* The message word permutation between rounds (from 0).
MSG_PERMUTATION == <<2, 6, 3, 10, 7, 0, 4, 13, 1, 11, 12, 5, 9, 14, 15, 8>>

\* The quarter-round G on the state words a, b, c, d (from 0).
g(state, a, b, c, d, mx, my) ==
    LET a1 == add32(add32(state[a + 1], state[b + 1]), mx)
        d1 == rotr32(xor32(state[d + 1], a1), 16)
        c1 == add32(state[c + 1], d1)
        b1 == rotr32(xor32(state[b + 1], c1), 12)
        a2 == add32(add32(a1, b1), my)
        d2 == rotr32(xor32(d1, a2), 8)
        c2 == add32(c1, d2)
        b2 == rotr32(xor32(b1, c2), 7)
    IN  [state EXCEPT ![a + 1] = a2, ![b + 1] = b2, ![c + 1] = c2, ![d + 1] = d2]

\* One round: the four columns, then the four diagonals.
round(state, m) ==
    LET s1 == g(state, 0, 4, 8, 12, m[1], m[2])
        s2 == g(s1, 1, 5, 9, 13, m[3], m[4])
        s3 == g(s2, 2, 6, 10, 14, m[5], m[6])
        s4 == g(s3, 3, 7, 11, 15, m[7], m[8])
        s5 == g(s4, 0, 5, 10, 15, m[9], m[10])
        s6 == g(s5, 1, 6, 11, 12, m[11], m[12])
        s7 == g(s6, 2, 7, 8, 13, m[13], m[14])
    IN  g(s7, 3, 4, 9, 14, m[15], m[16])

\* The rounds from the k-th to the seventh.
RECURSIVE rounds(_, _, _)
rounds(state, m, k) ==
    LET out == round(state, m)
        words == [j \in 1..16 |-> m[MSG_PERMUTATION[j] + 1]]
    IN  IF k = 7 \/ Len(out) # 16 THEN out
        ELSE rounds(out, <<words[1], words[2], words[3], words[4],
                           words[5], words[6], words[7], words[8],
                           words[9], words[10], words[11], words[12],
                           words[13], words[14], words[15], words[16]>>, k + 1)

\* The compression function with counter 0: the new chaining value.
compress(cv, block_words, block_len, flags) ==
    LET state == cv \o SubSeq(BLAKE3_IV, 1, 4)
                    \o <<<<0, 0>>, <<0, 0>>, <<0, block_len>>, <<0, flags>>>>
        out == rounds(state, block_words, 1)
    IN  <<xor32(out[1], out[9]), xor32(out[2], out[10]),
          xor32(out[3], out[11]), xor32(out[4], out[12]),
          xor32(out[5], out[13]), xor32(out[6], out[14]),
          xor32(out[7], out[15]), xor32(out[8], out[16])>>

\* The j-th byte (from 1) of bytes, 0 past the end.
byte_at(bytes, j) == IF j <= Len(bytes) THEN bytes[j] ELSE 0

\* The 16 little-endian words of the block-th 64-byte block (from 0).
block_words_of(bytes, block) ==
    [k \in 1..16 |->
        <<byte_at(bytes, 64 * block + 4 * k - 1)
            + 256 * byte_at(bytes, 64 * block + 4 * k),
          byte_at(bytes, 64 * block + 4 * k - 3)
            + 256 * byte_at(bytes, 64 * block + 4 * k - 2)>>]

\* The number of 64-byte blocks of an input of at most one chunk.
block_count(bytes) == IF bytes = <<>> THEN 1 ELSE (Len(bytes) + 63) \div 64

\* The chaining value after the blocks from block on: 1 is CHUNK_START, 2 is
\* CHUNK_END, 8 is ROOT.
RECURSIVE chunk_loop(_, _, _)
chunk_loop(bytes, block, cv) ==
    LET last == block = block_count(bytes) - 1
        len == IF last THEN Len(bytes) - 64 * block ELSE 64
        flags == (IF block = 0 THEN 1 ELSE 0) + (IF last THEN 10 ELSE 0)
        next == compress(cv, block_words_of(bytes, block), len, flags)
    IN  IF last \/ Len(next) # 8 THEN next
        ELSE chunk_loop(bytes, block + 1, next)

\* The 32 bytes of a chaining value, each word little-endian.
word_bytes(cv) ==
    [j \in 1..32 |->
        LET w == cv[((j - 1) \div 4) + 1]
            r == (j - 1) % 4
        IN  IF r = 0 THEN w[2] % 256
            ELSE IF r = 1 THEN w[2] \div 256
            ELSE IF r = 2 THEN w[1] % 256
            ELSE w[1] \div 256]

\* Hasher::finalize of BLAKE3 over an input of at most 1024 bytes.
blake3_digest(bytes) == word_bytes(chunk_loop(bytes, 0, BLAKE3_IV))

\* The byte string a digest was computed over.
hashed(digest) == digest[1]

----------------------------------------------------------------------------
\* The note library called on its own: the notes and the signatures of the
\* tests of note.rs.

zero_note == Note(0, bytes32(0), bytes32(0))

one_note == Note(1, bytes32(0), bytes32(0))

million_note == Note(1000000, bytes32(0), bytes32(0))

ones_note == Note(1, bytes32(1), bytes32(1))

\* Vector 6: 50 USDC, an owner and a blinding of mixed bytes.
realistic_note ==
    Note(50000000,
         <<2, 52, 86, 120, 154, 188, 222, 240, 18, 52, 86, 120, 154, 188, 222, 240,
           2, 52, 86, 120, 154, 188, 222, 240, 18, 52, 86, 120, 154, 188, 222, 240>>,
         <<222, 173, 190, 239, 202, 254, 186, 190, 18, 52, 86, 120, 154, 188, 222,
           240, 222, 173, 190, 239, 202, 254, 186, 190, 18, 52, 86, 120, 154, 188,
           222, 240>>)

\* Note::new(100, [1u8; 32], [2u8; 32])
test_note == Note(100, bytes32(1), bytes32(2))

\* The same amount and owner as test_note under another blinding.
reblinded_note == Note(100, bytes32(1), bytes32(3))

\* sig[i] = i * 2 for r, (i * 3) as u8 for s, then the recovery byte v.
realistic_signature(v) ==
    [k \in 1..65 |->
        IF k <= 32 THEN (k - 1) * 2
        ELSE IF k <= 64 THEN ((k - 1) * 3) % 256
        ELSE v]

\* sig2 = [7u8; 65]; sig2[0] = 8
changed_signature == [k \in 1..65 |-> IF k = 1 THEN 8 ELSE 7]

\* A signature one byte short of [7u8; 65].
short_signature == [k \in 1..64 |-> 7]

\* A signature chosen to be the byte string commit hashes for test_note.
preimage_signature == hashed(commit(test_note))

\* The commitment vectors of note.rs: the note and the digest expected.
commitment_vectors ==
    <<[note |-> zero_note,
       expected |->
        <<30, 138, 242, 13, 72, 238, 147, 109, 145, 3, 234, 186, 189, 86, 193,
          227, 139, 241, 9, 239, 183, 152, 155, 149, 44, 63, 216, 86, 122, 10,
          206, 160>>],
      [note |-> one_note,
       expected |->
        <<72, 208, 129, 104, 253, 149, 246, 162, 3, 114, 53, 47, 36, 255, 242,
          114, 213, 252, 25, 107, 131, 211, 1, 38, 30, 50, 86, 196, 38, 202,
          37, 13>>],
      [note |-> million_note,
       expected |->
        <<8, 49, 235, 129, 115, 15, 111, 77, 0, 211, 151, 16, 246, 62, 228,
          54, 154, 127, 48, 197, 254, 221, 93, 196, 123, 61, 254, 234, 108,
          20, 222, 205>>],
      [note |-> ones_note,
       expected |->
        <<206, 111, 34, 235, 227, 185, 103, 254, 73, 205, 223, 224, 238, 37,
          240, 151, 32, 195, 21, 184, 57, 237, 226, 43, 145, 151, 53, 7, 60,
          188, 224, 201>>],
      [note |-> realistic_note,
       expected |->
        <<108, 43, 190, 147, 173, 244, 83, 121, 30, 113, 22, 15, 36, 50, 109,
          155, 25, 145, 141, 183, 93, 185, 208, 34, 142, 21, 225, 166, 176,
          139, 89, 165>>]>>

\* The nullifier vectors of note.rs: the signature and the digest expected.
nullifier_vectors ==
    <<[signature |-> [k \in 1..65 |-> 0],
       expected |->
        <<170, 162, 188, 98, 36, 58, 157, 205, 42, 191, 23, 17, 41, 117, 148,
          179, 15, 214, 31, 122, 143, 214, 160, 77, 140, 135, 251, 215, 4, 5,
          32, 174>>],
      [signature |-> [k \in 1..65 |-> 7],
       expected |->
        <<219, 84, 183, 4, 106, 154, 139, 240, 155, 148, 197, 191, 38, 159,
          129, 187, 10, 17, 219, 167, 112, 183, 226, 15, 244, 142, 89, 24,
          207, 152, 201, 80>>],
      [signature |-> [k \in 1..65 |-> 255],
       expected |->
        <<74, 158, 5, 74, 202, 89, 105, 133, 253, 36, 151, 70, 149, 167, 252,
          164, 250, 151, 28, 43, 172, 73, 221, 107, 235, 93, 16, 121, 91, 199,
          169, 136>>],
      [signature |-> realistic_signature(27),
       expected |->
        <<190, 142, 61, 118, 75, 134, 20, 128, 185, 170, 120, 80, 31, 11, 112,
          206, 46, 135, 118, 254, 133, 246, 1, 236, 164, 153, 45, 232, 190,
          153, 14, 141>>],
      [signature |-> realistic_signature(28),
       expected |->
        <<23, 48, 171, 8, 192, 24, 222, 254, 198, 1, 126, 98, 72, 22, 195,
          249, 155, 216, 101, 102, 249, 139, 243, 12, 108, 255, 48, 135, 110,
          241, 191, 147>>]>>

SampleNotes ==
    {commitment_vectors[k].note : k \in 1..Len(commitment_vectors)}
        \cup {test_note, reblinded_note}

SampleSignatures ==
    {nullifier_vectors[k].signature : k \in 1..Len(nullifier_vectors)}
        \cup {changed_signature, short_signature, preimage_signature, <<>>}

\* One note and one signature, or two of each to compare.
NoteInputs ==
    {<<<<a>>, <<s>>>> : a \in SampleNotes, s \in SampleSignatures}
        \cup {<<<<a, b>>, <<s, t>>>> : a \in SampleNotes, b \in SampleNotes,
                                     s \in SampleSignatures,
                                     t \in SampleSignatures}

\* The notes and the signatures are built; nothing is hashed yet.
NoteInit ==
    /\ leaves = new.leaves
    /\ filled_subtrees = new.filled_subtrees
    /\ next_index = new.next_index
    /\ pushes = <<>>
    /\ result = Result("new", None, 0, None, None, FALSE)
    /\ run = NoRun
    /\ committed = None
    /\ recorded = {}
    /\ \E input \in NoteInputs :
          call = NoteCall("new", input[1], input[2], <<>>, <<>>)

\* note.commit() on every note at hand
Commit ==
    /\ call.op \in {"new", "compute_nullifier"}
    /\ call.commitments = <<>>
    /\ call' = [call EXCEPT
                  !.op = "commit",
                  !.commitments =
                      [i \in 1..Len(call.notes) |-> commit(call.notes[i])]]
    /\ UNCHANGED <<leaves, filled_subtrees, next_index, pushes, result,
                   run, committed, recorded>>

\* compute_nullifier(&sig) on every signature at hand
ComputeNullifier ==
    /\ call.op \in {"new", "commit"}
    /\ call.nullifiers = <<>>
    /\ call' = [call EXCEPT
                  !.op = "compute_nullifier",
                  !.nullifiers =
                      [i \in 1..Len(call.signatures) |->
                          compute_nullifier(call.signatures[i])]]
    /\ UNCHANGED <<leaves, filled_subtrees, next_index, pushes, result,
                   run, committed, recorded>>

\* A vector test has its commitment and its nullifier and compares them with
\* the digests expected: assert_eq!(hex::encode(..), expected).
CompareVector ==
    /\ call.op \in {"commit", "compute_nullifier"}
    /\ Len(call.notes) = 1
    /\ call.commitments # <<>>
    /\ call.nullifiers # <<>>
    /\ call' = [call EXCEPT !.op = "assert_eq"]
    /\ UNCHANGED <<leaves, filled_subtrees, next_index, pushes, result,
                   run, committed, recorded>>

NoteNext ==
    \/ Commit
    \/ ComputeNullifier
    \/ CompareVector

NoteSpec == NoteInit /\ [][NoteNext]_vars

----------------------------------------------------------------------------
\* Properties of the note library.

\* The bytes of seq from the position from on.
Tail_from(seq, from) == SubSeq(seq, from, Len(seq))

\* C23: domain separation. Whatever the note and whatever the signature, of
\* any length, the byte string commit hashes is "NOTE_COMMITMENT_v1", the
\* amount in little-endian, the owner and the blinding; the byte string
\* compute_nullifier hashes is "NULLIFIER_v1" and the signature; the two byte
\* strings differ, and no commitment equals a nullifier.
C23_DomainSeparation ==
    \A i \in 1..Len(call.commitments) :
        /\ hashed(call.commitments[i]) =
               NOTE_COMMITMENT_DOMAIN \o to_le_bytes(call.notes[i].amount)
                   \o call.notes[i].owner_pubkey \o call.notes[i].blinding
        /\ \A j \in 1..Len(call.nullifiers) :
               /\ hashed(call.nullifiers[j]) =
                      NULLIFIER_DOMAIN \o call.signatures[j]
               /\ hashed(call.commitments[i]) # hashed(call.nullifiers[j])
               /\ call.commitments[i] # call.nullifiers[j]

\* The commitment of test_note and the nullifier of the signature that spells
\* out what commit hashed for it have both been computed.
C23_Witness ==
    /\ call.commitments # <<>>
    /\ call.nullifiers # <<>>
    /\ call.notes[1] = test_note
    /\ call.signatures[1] = preimage_signature
    /\ Tail_from(hashed(call.nullifiers[1]), Len(NULLIFIER_DOMAIN) + 1) =
           hashed(call.commitments[1])

\* C24: commit is deterministic and, the hash being collision-free, injective
\* on notes: two notes have the same commitment exactly if they are the same
\* note, so the same amount and owner under another blinding give another
\* commitment.
C24_CommitInjective ==
    \A i \in 1..Len(call.commitments) :
        \A j \in 1..Len(call.commitments) :
            (call.commitments[i] = call.commitments[j])
                <=> (call.notes[i] = call.notes[j])

\* Two notes of the same amount and owner and different blindings have been
\* committed to, and so has the same note twice.
C24_Witness ==
    /\ Len(call.commitments) = 2
    /\ call.notes[1] = test_note
    /\ call.notes[2] = reblinded_note
    /\ call.commitments[1] # call.commitments[2]
    /\ commit(call.notes[1]) = call.commitments[1]

\* C25: compute_nullifier is deterministic and sensitive to every byte and
\* to the length of the signature: two signatures have the same nullifier
\* exactly if they are the same byte string.
C25_NullifierSensitive ==
    \A i \in 1..Len(call.nullifiers) :
        \A j \in 1..Len(call.nullifiers) :
            (call.nullifiers[i] = call.nullifiers[j])
                <=> (call.signatures[i] = call.signatures[j])

\* The nullifiers of two signatures that differ in the last byte only have
\* been computed.
C25_Witness ==
    /\ Len(call.nullifiers) = 2
    /\ call.signatures[1] = realistic_signature(27)
    /\ call.signatures[2] = realistic_signature(28)
    /\ call.nullifiers[1] # call.nullifiers[2]

\* C26: the cross-language test vectors. The commitment of every vector note
\* is the digest note.rs expects, which pins down the little-endian amount and
\* the order domain, amount, owner, blinding; in particular the commitment of
\* (0, 0, 0) is 1e8af20d...cea0 and that of (1, 0, 0) is 48d08168...250d. The
\* nullifier of every vector signature is the digest expected as well.
C26_TestVectors ==
    call.op = "assert_eq" =>
        /\ \A k \in 1..Len(commitment_vectors) :
               call.notes[1] = commitment_vectors[k].note
                   => blake3_digest(hashed(call.commitments[1]))
                          = commitment_vectors[k].expected
        /\ \A k \in 1..Len(nullifier_vectors) :
               call.signatures[1] = nullifier_vectors[k].signature
                   => blake3_digest(hashed(call.nullifiers[1]))
                          = nullifier_vectors[k].expected

\* The vector test of the note of amount 1 has its commitment, over a byte
\* string whose amount field is 1 followed by seven zero bytes, and the
\* digest of it starts with 0x48 and ends with 0x0d.
C26_Witness ==
    /\ call.op = "assert_eq"
    /\ call.notes[1] = one_note
    /\ SubSeq(hashed(call.commitments[1]), 19, 26) = <<1, 0, 0, 0, 0, 0, 0, 0>>
    /\ blake3_digest(hashed(call.commitments[1]))[1] = 72
    /\ blake3_digest(hashed(call.commitments[1]))[32] = 13

----------------------------------------------------------------------------
\* Note encryption: the encryption module the example test_encryption.rs
\* imports, with the fresh randomness of each call as an explicit argument.

\* The public key of a secret scalar: a point nobody can invert.
public_key(secret) == <<"point", secret>>

\* generate_keypair: (secret, public) from the randomness drawn.
generate_keypair(seed) == [secret |-> seed, public |-> public_key(seed)]

\* Diffie-Hellman agreement: the point both sides arrive at, whichever side
\* holds the secret.
diffie_hellman(secret, public) == <<"shared", {secret, public[2]}>>

\* The symmetric key derived from the shared secret.
derive_key(shared) == <<"key", shared>>

\* The length of a nonce in bytes.
NONCE_LEN == 12

\* The i-th byte of the key stream of a key and a nonce.
RECURSIVE scalar_sum(_)
scalar_sum(scalars) ==
    IF scalars = {} THEN 0
    ELSE LET x == CHOOSE y \in scalars : TRUE
         IN  x + scalar_sum(scalars \ {x})

key_stream(key, nonce, i) ==
    (17 * scalar_sum(key[2][2]) + 5 * nonce[1] + 31 * i) % 256

\* Authenticated encryption: the masked bytes and the tag over them.
aead_encrypt(key, nonce, plaintext) ==
    LET body == [i \in 1..Len(plaintext) |->
                    (plaintext[i] + key_stream(key, nonce, i)) % 256]
    IN  [body |-> body, tag |-> <<"tag", key, nonce, body>>]

\* Authenticated decryption that trusts the tag: the bytes unmasked, whatever
\* the key.
aead_decrypt_unauthenticated(key, nonce, ciphertext) ==
    Some([i \in 1..Len(ciphertext.body) |->
             (ciphertext.body[i] + 256 - key_stream(key, nonce, i)) % 256])

\* Authenticated decryption: absent unless the tag is the one of this key,
\* this nonce and these bytes.
aead_decrypt(key, nonce, ciphertext) ==
    IF ciphertext.tag # <<"tag", key, nonce, ciphertext.body>> THEN None
    ELSE aead_decrypt_unauthenticated(key, nonce, ciphertext)

\* struct EncryptedNote
EncryptedNote(key_type, ephemeral_pubkey, nonce, ciphertext) ==
    [key_type |-> key_type, ephemeral_pubkey |-> ephemeral_pubkey,
     nonce |-> nonce, ciphertext |-> ciphertext]

\* encrypt_note: agreement with a fresh keypair, key derivation, sealing
\* under a fresh nonce.
encrypt_note(plaintext, recipient_public, ephemeral_seed, nonce) ==
    LET ephemeral == generate_keypair(ephemeral_seed)
        key == derive_key(diffie_hellman(ephemeral.secret, recipient_public))
    IN  EncryptedNote(0, ephemeral.public, nonce,
                      aead_encrypt(key, nonce, plaintext))

\* decrypt_note without the check of the tag.
decrypt_note_unauthenticated(encrypted, recipient_secret) ==
    aead_decrypt_unauthenticated(
        derive_key(diffie_hellman(recipient_secret,
                                  encrypted.ephemeral_pubkey)),
        encrypted.nonce, encrypted.ciphertext)

\* decrypt_note: the agreement repeated with the static secret, then
\* authenticated decryption; absent on any failure.
decrypt_note(encrypted, recipient_secret) ==
    IF Len(encrypted.nonce) # NONCE_LEN THEN None
    ELSE aead_decrypt(
             derive_key(diffie_hellman(recipient_secret,
                                       encrypted.ephemeral_pubkey)),
             encrypted.nonce, encrypted.ciphertext)

\* b"amount:1000000000000000,owner:test"
note_data ==
    <<97, 109, 111, 117, 110, 116, 58, 49, 48, 48, 48, 48, 48, 48, 48, 48,
      48, 48, 48, 48, 48, 48, 48, 44, 111, 119, 110, 101, 114, 58, 116, 101,
      115, 116>>

\* The randomness generate_keypair may draw.
KeySeeds == 1..4

\* The plaintexts: the note data of the example, none, one zero byte.
Plaintexts == {note_data, <<>>, <<0>>}

\* The fresh nonces encrypt_note may draw.
Nonces == {[k \in 1..NONCE_LEN |-> 0], [k \in 1..NONCE_LEN |-> 9]}

\* The state of the example: the keypair of the recipient, the plaintext,
\* the encrypted note, the secret key decryption was given and its outcome.
EncryptionCall(op, recipient, plaintext, encrypted, secret, decrypted) ==
    [op |-> op, recipient |-> recipient, plaintext |-> plaintext,
     encrypted |-> encrypted, secret |-> secret, decrypted |-> decrypted]

\* fn main() of the example, before its first call.
EncryptionInit ==
    /\ leaves = new.leaves
    /\ filled_subtrees = new.filled_subtrees
    /\ next_index = new.next_index
    /\ pushes = <<>>
    /\ result = Result("new", None, 0, None, None, FALSE)
    /\ run = NoRun
    /\ committed = None
    /\ recorded = {}
    /\ call = EncryptionCall("main", None, None, None, None, None)

\* let (recipient_secret, recipient_public) = generate_keypair();
GenerateKeypair ==
    /\ call.op = "main"
    /\ \E seed \in KeySeeds :
          call' = [call EXCEPT !.op = "generate_keypair",
                               !.recipient = generate_keypair(seed)]
    /\ UNCHANGED <<leaves, filled_subtrees, next_index, pushes, result,
                   run, committed, recorded>>

\* let encrypted = encrypt_note(note_data, &recipient_public)
EncryptNote ==
    /\ call.op = "generate_keypair"
    /\ \E plaintext \in Plaintexts, ephemeral_seed \in KeySeeds,
          nonce \in Nonces :
          call' = [call EXCEPT
                     !.op = "encrypt_note",
                     !.plaintext = plaintext,
                     !.encrypted =
                         encrypt_note(plaintext, call.recipient.public,
                                      ephemeral_seed, nonce)]
    /\ UNCHANGED <<leaves, filled_subtrees, next_index, pushes, result,
                   run, committed, recorded>>

\* let decrypted = decrypt_note(&encrypted, &secret), with the secret key of
\* the recipient or with any other.
DecryptNote ==
    /\ call.op = "encrypt_note"
    /\ \E seed \in KeySeeds :
          call' = [call EXCEPT
                     !.op = "decrypt_note",
                     !.secret = generate_keypair(seed).secret,
                     !.decrypted =
                         decrypt_note(call.encrypted,
                                      generate_keypair(seed).secret)]
    /\ UNCHANGED <<leaves, filled_subtrees, next_index, pushes, result,
                   run, committed, recorded>>

EncryptionNext ==
    \/ GenerateKeypair
    \/ EncryptNote
    \/ DecryptNote

EncryptionSpec == EncryptionInit /\ [][EncryptionNext]_vars

\* C27: encryption round trip, failing closed. decrypt_note of what
\* encrypt_note made for a public key gives the plaintext back exactly if the
\* secret key is the one of that public key, and is absent under any other
\* secret key.
C27_RoundTripFailClosed ==
    call.op = "decrypt_note" =>
        IF public_key(call.secret) = call.recipient.public
        THEN call.decrypted = Some(call.plaintext)
        ELSE call.decrypted = None

\* The note data of the example went through encryption, which changed its
\* bytes, and came back under the secret key of the recipient.
C27_Witness ==
    /\ call.op = "decrypt_note"
    /\ call.plaintext = note_data
    /\ call.encrypted.ciphertext.body # note_data
    /\ call.secret = call.recipient.secret
    /\ call.decrypted = Some(note_data)

----------------------------------------------------------------------------
\* Properties of the accumulator over its steps.

\* The tree after the step.
self_after == [leaves |-> leaves', filled_subtrees |-> filled_subtrees',
               next_index |-> next_index']

\* C28 (as stated): every push changes the root, whatever the tree and
\* whatever the leaf, the all-zero leaf ZEROS[0] included.
C28_EveryPushChangesRoot ==
    [][result'.op = "push_leaf" => root(self_after) # root(self)]_vars

\* C28 (amended): on a tree below its capacity of 2^H leaves, push_leaf leaves
\* the root as it was exactly if the tree is not empty and the leaf is
\* ZEROS[0], the value root() takes for the positions not yet filled; every
\* other push changes the root.
C28_PushChangesRootUnlessZero ==
    [][(result'.op = "push_leaf" /\ Len(leaves) < Capacity) =>
          ((root(self_after) = root(self))
              <=> (leaves # <<>> /\ result'.leaf = Some(ZEROS[0])))]_vars

\* ZEROS[0] has been pushed onto a tree that held a leaf, and the root is the
\* reference root of the leaves before the push.
C28_Witness ==
    /\ result.op = "push_leaf"
    /\ result.leaf = Some(ZEROS[0])
    /\ Len(leaves) >= 2
    /\ Len(leaves) <= Capacity
    /\ leaves[1] # ZEROS[0]
    /\ root(self) = ReferenceRoot(SubSeq(leaves, 1, Len(leaves) - 1))

\* C29: the accumulator is append-only. push_leaf raises leaf_count by
\* exactly 1 and leaves every stored leaf at its index; root, prove, get_leaf,
\* leaf_count and verify_proof change nothing of the tree; next_index is the
\* number of stored leaves before and after every step.
C29_AppendOnly ==
    [][/\ result'.op = "push_leaf" =>
             /\ leaf_count(self_after) = leaf_count(self) + 1
             /\ \A i \in 0..(Len(leaves) - 1) :
                    get_leaf(self_after, i) = get_leaf(self, i)
       /\ result'.op \in {"root", "prove", "get_leaf", "leaf_count",
                           "verify_proof"} =>
             UNCHANGED <<leaves, filled_subtrees, next_index>>
       /\ next_index = Len(leaves)
       /\ next_index' = Len(leaves')]_vars

\* A third leaf has been pushed, and the stored leaves are the pushed ones
\* in the order of the pushes.
C29_Witness ==
    /\ result.op = "push_leaf"
    /\ Len(leaves) = 3
    /\ next_index = 3
    /\ leaves[1] # leaves[3]
    /\ \A k \in 1..3 : leaves[k] = pushes[k].leaf

\* The hash of the complete subtree of level l (its root l levels above the
\* leaves) whose leftmost leaf has the index first.
SubtreeHash(first, l) == HashUp(SubSeq(leaves, first + 1, first + Pow2(l)), l)

\* C30: after any non-empty sequence of pushes filled_subtrees has exactly H
\* entries, and at every level i at which the path from the last inserted
\* leaf to the top is a right child, filled_subtrees[i] is the hash of the
\* complete left sibling subtree of that node.
C30_FilledSubtrees ==
    leaves # <<>> =>
        /\ DOMAIN filled_subtrees = 0..(TREE_HEIGHT - 1)
        /\ \A i \in 0..(TREE_HEIGHT - 1) :
               Bit(next_index - 1, i) = 1 =>
                   filled_subtrees[i] =
                       SubtreeHash((((next_index - 1) \div Pow2(i)) - 1)
                                       * Pow2(i), i)

\* The last leaf is a right child at every level, and the top entry is the
\* hash of the two leaves on the left.
C30_Witness ==
    /\ result.op = "push_leaf"
    /\ Len(leaves) = Capacity
    /\ \A i \in 0..(TREE_HEIGHT - 1) : Bit(next_index - 1, i) = 1
    /\ leaves[1] # leaves[2]
    /\ filled_subtrees[1] = hash_pair(leaves[1], leaves[2])

====
